---- MODULE Spec2Model ----
(***************************************************************************)
(* Voice interview system: the interview session state machine             *)
(* (main.py, orchestrator.py) and its persistence (state_manager.py).      *)
(*                                                                         *)
(* One operating-system process runs at a time.  A process is either a     *)
(* cleanup run, a new interview or the resumption of a persisted session.  *)
(* The steps of a process are the pieces of code between two suspension    *)
(* points (await) of the cooperative scheduler; the timer-driven auto-save *)
(* and a user cancel are delivered at suspension points, a kill of the     *)
(* process can come at any point, also inside save_state.                  *)
(*                                                                         *)
(* A text is the sequence of its sentence units.                           *)
(***************************************************************************)
EXTENDS Integers, Sequences, FiniteSets, TLC

VARIABLES
    clock,      \* wall clock (datetime.now(), time.time()), in coarse units
    disk,       \* state_dir: the canonical file <session_id>.json of each id
    tmp,        \* state_dir: the temporary file <session_id>.tmp of each id
    pc,         \* position of the running process ("none": no process)
    session,    \* state_manager.current_session
    save_task,  \* state_manager._save_task is a scheduled auto-save task
    orc,        \* locals of LocalInterviewOrchestrator and of its run()
    runs,       \* number of interview processes started so far
    incidents,  \* number of non-nominal collaborator outcomes so far
    exports,    \* transcript_dir: the export file <output_filename_base>.jsonl of each day
    hist        \* history: the last operation, the fate of its save_state and
                \* the session as that save_state serialized it

vars == <<clock, disk, tmp, pc, session, save_task, orc, runs, incidents, exports, hist>>

(***************************************************************************)
(* Bounds of the exploration.                                              *)
(***************************************************************************)
NumPhases == 2
MaxRuns == 2
MaxClock == 1
MaxIncidents == 1
TicksPerDay == 2
MaxCreates == 3
MaxPhaseList == 3
MaxUtterances == 3
RetryHorizon == 4
MaxTasks == 3
MaxCalls == 4
NumCallers == 2
MaxFrames == 2
MaxRecordings == 3

(***************************************************************************)
(* Configuration (config.py).                                              *)
(***************************************************************************)
ConfigPhases == <<"warmup", "technical", "behavioral", "situational", "closing">>

questions_per_phase ==
    [p \in {"warmup", "technical", "behavioral", "situational", "closing"} |->
        IF p = "technical" THEN 2 ELSE 1]

interview_phases == SubSeq(ConfigPhases, 1, NumPhases)

OneQuestionPerPhase(phase) == 1

\* "self.config.questions_per_phase.get(phase, 1)"
NumQuestions(phase) ==
    IF phase \in DOMAIN questions_per_phase THEN questions_per_phase[phase] ELSE 1

MinWavBytes == 2000

Ids == 0..MaxClock

\* "interview_" + session_id.split('_')[1]: the date part of the session id
output_filename_base(id) == id \div TicksPerDay

Days == {output_filename_base(id) : id \in Ids}

\* an export file that does not exist yet, or was truncated and not written
NoExport == <<>>

Range(s) == {s[k] : k \in 1..Len(s)}

(***************************************************************************)
(* InterviewState and the texts of the collaborators.                      *)
(***************************************************************************)
NOT_STARTED == "not_started"
IN_PROGRESS == "in_progress"
PAUSED == "paused"
COMPLETED == "completed"
FAILED == "failed"

Sentinel == <<"[Ses algilanamadi]">>
EmptyText == <<>>
GeneratedQuestion == <<"gen_s1.", "gen_s2?">>
TranscribedAnswer == <<"ans.">>

technical_questions_only(phase) == {<<"technical_fb1?">>, <<"technical_fb2?">>}

\* _get_fallback_question: the canned questions random.choice draws from
fallback_questions(phase) ==
    CASE phase = "warmup" -> {<<"warmup_fb1?">>, <<"warmup_fb2?">>}
      [] phase = "behavioral" -> {<<"behavioral_fb1?">>, <<"behavioral_fb2?">>}
      [] phase = "situational" -> {<<"situational_fb1?">>, <<"situational_fb2?">>}
      [] phase = "closing" -> {<<"closing_fb1?">>, <<"closing_fb2?">>}
      [] OTHER -> {<<"technical_fb1?">>, <<"technical_fb2?">>}

JobInfo == [title |-> "Python Developer", company |-> "Tech Startup"]
CandidateInfo == [name |-> "Demo"]

(***************************************************************************)
(* The session in memory and its JSON document.                            *)
(*   In memory: state is an enum member or (after a load, use_enum_values) *)
(*   its string value; times are datetime objects; no audio path is None.  *)
(*   In JSON: state is the string value; times are ISO-8601 strings; None  *)
(*   is null.                                                              *)
(***************************************************************************)
NoSession == [none |-> TRUE]
NoDoc == [nodoc |-> TRUE]

HasSession == session # NoSession

EnumMember(v) == [repr |-> "enum", v |-> v]
EnumValue(v) == [repr |-> "str", v |-> v]

QA(role, text, ts) == [role |-> role, text |-> text, audio_path |-> "None", ts |-> ts]

NewSession(id, now) ==
    [ session_id |-> id,
      state |-> EnumMember(NOT_STARTED),
      job_info |-> JobInfo,
      candidate_info |-> CandidateInfo,
      current_phase |-> "warmup",
      current_question_index |-> 0,
      completed_phases |-> <<>>,
      transcript |-> <<>>,
      started_at |-> [dt |-> now],
      last_checkpoint |-> [dt |-> now],
      errors |-> <<>> ]

DumpQA(qa) ==
    [ role |-> qa.role, text |-> qa.text,
      audio_path |-> IF qa.audio_path = "None" THEN "null" ELSE qa.audio_path,
      ts |-> qa.ts ]

ParseQA(j) ==
    [ role |-> j.role, text |-> j.text,
      audio_path |-> IF j.audio_path = "null" THEN "None" ELSE j.audio_path,
      ts |-> j.ts ]

model_dump_json_dropping_errors(s) ==
    [ session_id |-> s.session_id,
      state |-> s.state.v,
      job_info |-> s.job_info,
      candidate_info |-> s.candidate_info,
      current_phase |-> s.current_phase,
      current_question_index |-> s.current_question_index,
      completed_phases |-> s.completed_phases,
      transcript |-> [k \in 1..Len(s.transcript) |-> DumpQA(s.transcript[k])],
      started_at |-> [iso |-> s.started_at.dt],
      last_checkpoint |-> [iso |-> s.last_checkpoint.dt],
      errors |-> <<>> ]

model_dump_json(s) ==
    [ session_id |-> s.session_id,
      state |-> s.state.v,
      job_info |-> s.job_info,
      candidate_info |-> s.candidate_info,
      current_phase |-> s.current_phase,
      current_question_index |-> s.current_question_index,
      completed_phases |-> s.completed_phases,
      transcript |-> [k \in 1..Len(s.transcript) |-> DumpQA(s.transcript[k])],
      started_at |-> [iso |-> s.started_at.dt],
      last_checkpoint |-> [iso |-> s.last_checkpoint.dt],
      errors |-> s.errors ]

InterviewSessionFromData(d) ==
    [ session_id |-> d.session_id,
      state |-> EnumValue(d.state),
      job_info |-> d.job_info,
      candidate_info |-> d.candidate_info,
      current_phase |-> d.current_phase,
      current_question_index |-> d.current_question_index,
      completed_phases |-> d.completed_phases,
      transcript |-> [k \in 1..Len(d.transcript) |-> ParseQA(d.transcript[k])],
      started_at |-> [dt |-> d.started_at.iso],
      last_checkpoint |-> [dt |-> d.last_checkpoint.iso],
      errors |-> d.errors ]

(***************************************************************************)
(* Files.  kind: "absent", "doc" (a complete JSON document of a session),  *)
(* "torn" (a partially written document) or "garbage" (not a session       *)
(* document at all).  old: the modification time is before the cleanup     *)
(* cutoff.                                                                 *)
(***************************************************************************)
File(kind, doc, old) == [kind |-> kind, doc |-> doc, old |-> old]
Absent == File("absent", NoDoc, FALSE)


(***************************************************************************)
(* StateManager.save_state.  The fate of one call:                         *)
(*   "ok"            the temporary file was written and renamed            *)
(*   "fail_write"    writing the temporary file raised (caught, logged)    *)
(*   "fail_replace"  the rename raised (caught, logged)                    *)
(*   "kill_write"    the process was killed while writing the temp file    *)
(*   "kill_replace"  the process was killed before the rename              *)
(* A kill after the rename is a completed save followed by Kill.           *)
(***************************************************************************)
SaveFates == {"ok", "fail_write", "fail_replace", "kill_write", "kill_replace"}
KillFates == {"kill_write", "kill_replace"}
FailFates == {"fail_write", "fail_replace"}

Fates == IF incidents < MaxIncidents THEN SaveFates ELSE {"ok"}

StampAndLog(s) ==
    [s EXCEPT !.last_checkpoint = [dt |-> clock],
              !.errors = Append(@, [type |-> "checkpoint", details |-> "saved"])]

\* "self.current_session.last_checkpoint = datetime.now()"
Stamp(s) == [s EXCEPT !.last_checkpoint = [dt |-> clock]]

\* a save that writes the final file in place, with no temporary file
FinalFileWrittenInPlace(s, fate) ==
    CASE fate = "ok" -> [disk EXCEPT ![s.session_id] = File("doc", model_dump_json(s), FALSE)]
      [] fate \in {"fail_write", "kill_write"} ->
            [disk EXCEPT ![s.session_id] = File("torn", NoDoc, FALSE)]
      [] OTHER -> disk

\* a save that reports success and writes nothing
FinalFileNotWritten(s, fate) == disk

\* the canonical files after save_state of the stamped session s
FinalFileAfterSave(s, fate) ==
    IF fate = "ok"
    THEN [disk EXCEPT ![s.session_id] = File("doc", model_dump_json(s), FALSE)]
    ELSE disk

\* the temporary files after save_state of the stamped session s
TempFileAfterSave(s, fate) ==
    CASE fate = "ok" -> [tmp EXCEPT ![s.session_id] = "absent"]
      [] fate \in {"fail_write", "kill_write"} -> [tmp EXCEPT ![s.session_id] = "torn"]
      [] OTHER -> [tmp EXCEPT ![s.session_id] = "full"]

\* the locals of the orchestrator after __init__ (the ghost fields fresh, clean,
\* loaded_completed, loaded_len and run_commits record the history of the run).
\* tts is the position of the TTS worker thread on the units of the question of
\* this turn: "idle", "queued" (a unit is in tts_queue) or "playing" (the worker
\* is in its say/iterate loop); speak_result is what _speak returned; cancelled
\* holds the tasks of the race on which cancel() has been called; stt_called
\* tells whether the answer of the turn went through transcribe_audio; own_file
\* tells whether the file of the session holds a snapshot of this very session
\* (it was loaded from it, or a save of it has succeeded).
OrcInit(phase, completed, len, asked, fresh) ==
    [ pi |-> 0, i |-> 0, phase |-> phase, question_count |-> asked,
      question |-> EmptyText, spoken |-> 0, speak_done |-> FALSE,
      interrupt_fired |-> FALSE, race |-> "none", captures |-> 0,
      listen |-> "none", answer |-> EmptyText, committed |-> FALSE, gen |-> "none",
      exit |-> "ok", fin |-> "none", fresh |-> fresh, clean |-> TRUE,
      loaded_completed |-> completed, loaded_len |-> len, run_commits |-> 0,
      tts |-> "idle", speak_result |-> "none", cancelled |-> {},
      stt_called |-> FALSE, own_file |-> FALSE ]

OrcIdle == OrcInit("warmup", {}, 0, 0, FALSE)

\* the process is killed: its memory is gone
Dead ==
    /\ pc' = "none"
    /\ session' = NoSession
    /\ save_task' = FALSE
    /\ orc' = OrcIdle

\* save_state() of the session s, and how the process goes on after it
\* (sN: the session in memory when the handler ends)
SaveAnd(op, s, fate, sN, pcN, orcN, taskN, inc) ==
    /\ disk' = FinalFileAfterSave(Stamp(s), fate)
    /\ tmp' = TempFileAfterSave(Stamp(s), fate)
    /\ UNCHANGED exports
    /\ incidents' = incidents + inc + (IF fate = "ok" THEN 0 ELSE 1)
    /\ hist' = [op |-> IF op = "auto_save" THEN op ELSE "step", lastSave |-> fate, cleaned |-> 0,
                saved |-> IF fate = "ok" THEN Stamp(s) ELSE NoSession]
    /\ IF fate \in KillFates
       THEN Dead
       ELSE /\ session' = Stamp(sN)
            /\ pc' = pcN
            /\ orc' = [orcN EXCEPT !.own_file = orc.own_file \/ fate = "ok"]
            /\ save_task' = taskN

(***************************************************************************)
(* StateManager.load_session: the session of a complete document, None     *)
(* (here NoSession) when the file is absent or cannot be deserialized.     *)
(***************************************************************************)
load_session(sid) ==
    IF disk[sid].kind = "doc" THEN InterviewSessionFromData(disk[sid].doc) ELSE NoSession

(***************************************************************************)
(* StateManager.cleanup_old_sessions: a file is unlinked when it is old,   *)
(* parses, and its state is completed or failed.                           *)
(***************************************************************************)
CleanupDeletesAnyOldDoc(f) ==
    /\ f.kind # "absent"
    /\ f.old
    /\ f.kind = "doc"

CleanupDeletesAnyFinished(f) ==
    /\ f.kind = "doc"
    /\ f.doc.state \in {COMPLETED, FAILED}

CleanupDeletes(f) ==
    /\ f.kind # "absent"
    /\ f.old
    /\ f.kind = "doc"
    /\ f.doc.state \in {COMPLETED, FAILED}

cleanup_old_sessions == [id \in Ids |-> IF CleanupDeletes(disk[id]) THEN Absent ELSE disk[id]]

cleaned_count == Cardinality({id \in Ids : CleanupDeletes(disk[id])})

(***************************************************************************)
(* StateManager.get_recovery_info: one scan of the *.json files (here in   *)
(* the order of their ids); a file that does not parse raises inside the   *)
(* try of the loop body and is skipped.                                    *)
(***************************************************************************)
ListsInProgressOnly(state) == state = IN_PROGRESS

\* "data.get('state') in [IN_PROGRESS.value, PAUSED.value]"
ListsState(state) == state \in {IN_PROGRESS, PAUSED}

RecoveryEntry(doc) ==
    [ session_id |-> doc.session_id,
      candidate_name |-> doc.candidate_info.name,
      position |-> doc.job_info.title ]

RECURSIVE RecoveryScan(_)
\* the entries appended for the files with an id below k
RecoveryScan(k) ==
    IF k = 0 THEN <<>>
    ELSE LET f == disk[k - 1] IN
         IF f.kind = "doc" /\ ListsState(f.doc.state)
         THEN Append(RecoveryScan(k - 1), RecoveryEntry(f.doc))
         ELSE RecoveryScan(k - 1)

get_recovery_info == RecoveryScan(MaxClock + 1)


(***************************************************************************)
(* The phase loop of LocalInterviewOrchestrator.run.                       *)
(***************************************************************************)
SkipNoPhase(phase, completed) == FALSE

\* "if phase in self.session.completed_phases: continue"
SkipPhase(phase, completed) == phase \in Range(completed)

RECURSIVE NextPhaseIn(_, _, _)
\* "for phase in phases": the index of the first phase from k on that is not
\* skipped, 0 when none is left
NextPhaseIn(phases, completed, k) ==
    IF k > Len(phases) THEN 0
    ELSE IF SkipPhase(phases[k], completed) THEN NextPhaseIn(phases, completed, k + 1)
    ELSE k

\* the same for the configured list of phases
NextPhase(completed, k) == NextPhaseIn(interview_phases, completed, k)

\* the loop from its k-th iteration up to the next suspension point: the first
\* question of the next phase that is not skipped, or the closing message
LoopFrom(s, o, k) ==
    LET n == NextPhase(s.completed_phases, k) IN
    IF n = 0
    THEN [s |-> s, pc |-> "closing", o |-> o]
    ELSE [ s |-> [s EXCEPT !.current_phase = interview_phases[n]],
           pc |-> "ask",
           o |-> [o EXCEPT !.pi = n, !.i = 0, !.phase = interview_phases[n],
                           !.question_count = @ + 1] ]

AppendAiOnly(t, question, answer, ts) == Append(t, QA("ai", question, ts))

\* an orchestrator that starts with a list of its own
self_transcript_fresh(s) == <<>>

\* "self.transcript = self.session.transcript": the list of the orchestrator is
\* the list of the session
self_transcript(s) == s.transcript

AppendPairTwoStamps(t, question, answer, ts) ==
    Append(Append(t, QA("ai", question, ts)), QA("human", answer, ts + 1))

\* the two appends of one committed exchange
AppendPair(t, question, answer, ts) ==
    Append(Append(t, QA("ai", question, ts)), QA("human", answer, ts))

\* what a call of _listen gives: whether it raised, the answer text, and whether
\* stt_client.transcribe_audio was called
Heard(text, stt_called) == [raised |-> FALSE, text |-> text, stt_called |-> stt_called]

\* _listen without its try/except
ListenUnguarded(rec_raises, wav_len, stt_raises) ==
    IF rec_raises THEN [raised |-> TRUE, text |-> EmptyText, stt_called |-> FALSE]
    ELSE IF wav_len < MinWavBytes THEN Heard(EmptyText, FALSE)
    ELSE IF stt_raises THEN [raised |-> TRUE, text |-> EmptyText, stt_called |-> TRUE]
    ELSE Heard(TranscribedAnswer, TRUE)

\* _listen without the test of the size of the recording
ListenTranscribesAll(rec_raises, wav_len, stt_raises) ==
    IF rec_raises THEN Heard(Sentinel, FALSE)
    ELSE IF stt_raises THEN Heard(Sentinel, TRUE)
    ELSE Heard(TranscribedAnswer, TRUE)

\* LocalInterviewOrchestrator._listen
Listen(rec_raises, wav_len, stt_raises) ==
    IF rec_raises THEN Heard(Sentinel, FALSE)
    ELSE IF wav_len < MinWavBytes THEN Heard(EmptyText, FALSE)
    ELSE IF stt_raises THEN Heard(Sentinel, TRUE)
    ELSE Heard(TranscribedAnswer, TRUE)

NominalCapture == [rec |-> FALSE, wav |-> MinWavBytes, stt |-> FALSE]

Captures ==
    {NominalCapture} \cup
    (IF incidents < MaxIncidents
     THEN { [rec |-> TRUE, wav |-> 0, stt |-> FALSE],
            [rec |-> FALSE, wav |-> 0, stt |-> FALSE],
            [rec |-> FALSE, wav |-> MinWavBytes - 1, stt |-> FALSE],
            [rec |-> FALSE, wav |-> MinWavBytes, stt |-> TRUE] }
     ELSE {})

\* Pyttsx3Client.text_to_speech_and_play has no return statement
text_to_speech_and_play == "None"

Truthy(x) == x = "True"

AwaitPcs == {"welcome", "ask", "race", "listen", "closing", "finally"}


(***************************************************************************)
(* Initial state: an empty state directory and no process.                 *)
(***************************************************************************)
Init ==
    /\ clock = 0
    /\ disk = [id \in Ids |-> Absent]
    /\ tmp = [id \in Ids |-> "absent"]
    /\ exports = [d \in Days |-> NoExport]
    /\ pc = "none"
    /\ session = NoSession
    /\ save_task = FALSE
    /\ orc = OrcIdle
    /\ runs = 0
    /\ incidents = 0
    /\ hist = [op |-> "init", lastSave |-> "none", cleaned |-> 0, saved |-> NoSession]

Note(op) == hist' = [op |-> "step", lastSave |-> "none", cleaned |-> 0, saved |-> NoSession]

(***************************************************************************)
(* main.py, LocalInterviewApp.run: the three kinds of process.             *)
(***************************************************************************)
\* python main.py --cleanup-sessions
StartCleanup ==
    /\ pc = "none"
    /\ hist.op # "cleanup"
    /\ disk' = cleanup_old_sessions
    /\ hist' = [op |-> "cleanup", lastSave |-> "none", cleaned |-> cleaned_count,
                saved |-> NoSession]
    /\ UNCHANGED <<clock, tmp, exports, pc, session, save_task, orc, runs, incidents>>

\* a new interview: _run_interview finds no current session and calls
\* create_session, which saves the new session and starts the auto-save task
StartNew ==
    /\ pc = "none"
    /\ runs < MaxRuns
    /\ runs' = runs + 1
    /\ \E fate \in Fates :
         LET s == NewSession(clock, clock) IN
         SaveAnd("create_session", s, fate, s, "created",
                 [OrcIdle EXCEPT !.fresh = TRUE], TRUE, 0)
    /\ UNCHANGED clock

AsLoaded(s, fresh) ==
    OrcInit(s.current_phase, Range(s.completed_phases), Len(s.transcript),
            Cardinality({k \in 1..Len(s.transcript) : s.transcript[k].role = "ai"}),
            fresh)

\* python main.py --resume sid, or a session picked from the recovery list
StartResume(sid) ==
    /\ pc = "none"
    /\ runs < MaxRuns
    /\ runs' = runs + 1
    /\ LET s == load_session(sid) IN
       IF s = NoSession
       THEN /\ Note("load_failed")
            /\ UNCHANGED <<pc, session, save_task, orc>>
       ELSE /\ Note("load_session")
            /\ session' = s
            /\ save_task' = TRUE
            /\ pc' = "created"
            /\ orc' = [AsLoaded(s, FALSE) EXCEPT !.own_file = TRUE]
    /\ UNCHANGED <<clock, disk, tmp, exports, incidents>>

\* python main.py without --resume: the user picks an entry of the recovery list
ResumeRecovered ==
    \E k \in DOMAIN get_recovery_info : StartResume(get_recovery_info[k].session_id)

\* _run_interview: the constructor of the orchestrator raises (no current
\* session, the translator cannot be set up); run() reports the error
ConstructorRaises ==
    /\ pc = "created"
    /\ incidents < MaxIncidents
    /\ incidents' = incidents + 1
    /\ pc' = "exiting"
    /\ orc' = [orc EXCEPT !.exit = "ctor_exc", !.clean = FALSE]
    /\ Note("constructor_raises")
    /\ UNCHANGED <<clock, disk, tmp, exports, session, save_task, runs>>

\* _run_interview up to the first suspension point of orchestrator.run:
\* the status becomes IN_PROGRESS and is saved; an empty transcript is
\* welcomed, a resumed one enters the phase loop at once
BeginInterview ==
    /\ pc = "created"
    /\ \E fate \in Fates :
         LET s == [session EXCEPT !.state = EnumMember(IN_PROGRESS)]
             o == AsLoaded(s, orc.fresh)
             n == LoopFrom(s, o, 1)
         IN  IF s.transcript = <<>>
             THEN SaveAnd("begin", s, fate, s, "welcome", o, save_task, 0)
             ELSE SaveAnd("begin", s, fate, n.s, n.pc, n.o, save_task, 0)
    /\ UNCHANGED <<clock, runs>>

\* the welcome message has been spoken
Welcome ==
    /\ pc = "welcome"
    /\ LET n == LoopFrom(session, orc, 1) IN
       /\ session' = n.s
       /\ pc' = n.pc
       /\ orc' = n.o
    /\ Note("welcome")
    /\ UNCHANGED <<clock, disk, tmp, exports, save_task, runs, incidents>>


(***************************************************************************)
(* One question/answer exchange (orchestrator.py, run, lines 260-304).     *)
(***************************************************************************)
StartRace(q) ==
    [orc EXCEPT !.question = q, !.spoken = 0, !.speak_done = FALSE,
                !.interrupt_fired = FALSE, !.race = "running", !.captures = 0,
                !.listen = "none", !.answer = EmptyText, !.committed = FALSE,
                !.gen = "ok", !.tts = "queued", !.speak_result = "none",
                !.cancelled = {}, !.stt_called = FALSE]

\* the locals of a turn are dead once the phase loop is left
LeaveLoop(o, exit) ==
    [OrcInit(o.phase, o.loaded_completed, o.loaded_len, o.question_count, o.fresh)
       EXCEPT !.exit = exit, !.clean = FALSE, !.run_commits = o.run_commits,
              !.own_file = o.own_file]

\* _ask_ai_question returns the generated question; the speak task and the
\* interruption listener are created
AskGenerated ==
    /\ pc = "ask"
    /\ orc' = StartRace(GeneratedQuestion)
    /\ pc' = "race"
    /\ Note("ask")
    /\ UNCHANGED <<clock, disk, tmp, exports, session, save_task, runs, incidents>>

\* question generation raises: _ask_ai_question returns a canned question
AskFallback ==
    /\ pc = "ask"
    /\ incidents < MaxIncidents
    /\ incidents' = incidents + 1
    /\ \E q \in fallback_questions(orc.phase) :
         orc' = [StartRace(q) EXCEPT !.clean = FALSE, !.gen = "failed"]
    /\ pc' = "race"
    /\ Note("ask_fallback")
    /\ UNCHANGED <<clock, disk, tmp, exports, session, save_task, runs>>

\* an exception that no handler of the turn catches (creating the tasks of
\* the race raises): it leaves the phase loop through the finally block
TurnRaises ==
    /\ pc = "ask"
    /\ incidents < MaxIncidents
    /\ incidents' = incidents + 1
    /\ orc' = LeaveLoop(orc, "exc")
    /\ pc' = "finally"
    /\ Note("turn_raises")
    /\ UNCHANGED <<clock, disk, tmp, exports, session, save_task, runs>>

\* _tts_worker: tts_queue.get returns the queued unit and the worker starts to
\* play it
TtsWorkerTakes ==
    /\ pc \in {"race", "listen"}
    /\ orc.tts = "queued"
    /\ orc' = [orc EXCEPT !.tts = "playing"]
    /\ Note("tts_worker_takes")
    /\ UNCHANGED <<clock, disk, tmp, exports, pc, session, save_task, runs, incidents>>

\* _tts_worker: the utterance of a unit whose speak task has been cancelled
\* comes to its end (nothing in the loop of the worker reads interruption_event)
UtteranceEnds ==
    /\ pc = "listen"
    /\ orc.tts = "playing"
    /\ "speak" \in orc.cancelled
    /\ orc' = [orc EXCEPT !.tts = "idle"]
    /\ Note("utterance_ends")
    /\ UNCHANGED <<clock, disk, tmp, exports, pc, session, save_task, runs, incidents>>

\* _speak: the worker has played the unit and set its complete_event,
\* text_to_speech_and_play has returned; a falsy result ends _speak with False,
\* the last unit ends it with True, otherwise the next unit is queued.  The
\* speak task runs on until it is done or cancelled.
SpeakUnit ==
    /\ pc \in {"race", "listen"}
    /\ ~orc.speak_done
    /\ "speak" \notin orc.cancelled
    /\ orc.tts = "playing"
    /\ orc.spoken < Len(orc.question)
    /\ LET falsy == ~Truthy(text_to_speech_and_play)
           last == orc.spoken + 1 = Len(orc.question)
       IN  orc' = [orc EXCEPT !.spoken = @ + 1,
                              !.speak_done = falsy \/ last,
                              !.speak_result = IF falsy THEN "False"
                                               ELSE IF last THEN "True" ELSE "none",
                              !.tts = IF falsy \/ last THEN "idle" ELSE "queued"]
    /\ Note("speak_unit")
    /\ UNCHANGED <<clock, disk, tmp, exports, pc, session, save_task, runs, incidents>>

\* audio_recorder.listen_for_interruption returns: speech onset was detected
\* (the listener runs on until it is done or cancelled)
InterruptFires ==
    /\ pc \in {"race", "listen"}
    /\ ~orc.interrupt_fired
    /\ "interrupt" \notin orc.cancelled
    /\ orc' = [orc EXCEPT !.interrupt_fired = TRUE, !.clean = FALSE]
    /\ Note("interrupt_fires")
    /\ UNCHANGED <<clock, disk, tmp, exports, pc, session, save_task, runs, incidents>>

RaceNotAwaited(o) == TRUE

\* asyncio.wait(..., return_when=FIRST_COMPLETED) returns once a task is done
RaceResolved(o) == o.speak_done \/ o.interrupt_fired

\* Pyttsx3Client.stop_playback: interruption_event is set and tts_queue is
\* cleared; the unit the worker is playing is not touched
stop_playback(tts) == IF tts = "queued" THEN "idle" ELSE tts

CancelNothing(o) == {}

\* "for task in pending: task.cancel()" (the same in both branches)
CancelPending(o) ==
    (IF o.speak_done THEN {} ELSE {"speak"}) \cup
    (IF o.interrupt_fired THEN {} ELSE {"interrupt"})

\* asyncio.wait(FIRST_COMPLETED) returns; when the interruption is among the
\* done tasks the playback is stopped; the pending tasks are cancelled; _listen
\* is called
ResolveRace ==
    /\ pc = "race"
    /\ RaceResolved(orc)
    /\ orc' = [orc EXCEPT
                 !.race = IF orc.interrupt_fired THEN "interrupt_first" ELSE "speak_first",
                 !.tts = IF orc.interrupt_fired THEN stop_playback(@) ELSE @,
                 !.cancelled = CancelPending(orc),
                 !.captures = @ + 1]
    /\ pc' = "listen"
    /\ Note("resolve_race")
    /\ UNCHANGED <<clock, disk, tmp, exports, session, save_task, runs, incidents>>

\* _listen returns; the pair is appended and the session saved; the loop goes on
\* to the next question of the phase or to the end of the phase.  (An exception
\* raised by _listen would leave the loop like any other.)
ListenAndCommit ==
    /\ pc = "listen"
    /\ \E c \in Captures, fate \in Fates :
         LET nominal == c = NominalCapture
             heard == Listen(c.rec, c.wav, c.stt)
             outcome == IF c.rec THEN "record_raises"
                        ELSE IF c.wav < MinWavBytes THEN "short"
                        ELSE IF c.stt THEN "transcribe_raises"
                        ELSE "ok"
             s == [session EXCEPT
                     !.transcript = AppendPair(self_transcript(session), orc.question,
                                               heard.text, clock),
                     !.current_question_index = orc.i + 1]
             o == [orc EXCEPT !.answer = heard.text, !.committed = TRUE,
                              !.tts = "idle", !.cancelled = {},
                              !.stt_called = heard.stt_called,
                              !.listen = outcome,
                              !.clean = @ /\ nominal,
                              !.run_commits = @ + 1]
             more == orc.i + 1 < NumQuestions(orc.phase)
         IN  /\ nominal \/ fate = "ok"
             /\ IF heard.raised
                THEN /\ fate = "ok"
                     /\ orc' = [LeaveLoop(orc, "exc") EXCEPT !.listen = outcome]
                     /\ pc' = "finally"
                     /\ incidents' = incidents + 1
                     /\ Note("listen_raises")
                     /\ UNCHANGED <<disk, tmp, exports, session, save_task>>
                ELSE SaveAnd("commit", s, fate, s,
                             IF more THEN "ask" ELSE "phase_done",
                             IF more THEN [o EXCEPT !.i = @ + 1, !.question_count = @ + 1]
                                     ELSE o,
                             save_task, IF nominal THEN 0 ELSE 1)
    /\ UNCHANGED <<clock, runs>>

\* the phase is appended to completed_phases and the session saved; the loop goes
\* on to the next phase or to the closing message
PhaseDone ==
    /\ pc = "phase_done"
    /\ \E fate \in Fates :
         LET s == [session EXCEPT !.completed_phases = Append(@, orc.phase)]
             n == LoopFrom(s, orc, orc.pi + 1)
         IN  SaveAnd("phase_done", s, fate, n.s, n.pc, n.o, save_task, 0)
    /\ UNCHANGED <<clock, runs>>


(***************************************************************************)
(* The end of the run: orchestrator.run lines 310-323, main.py 341-357.    *)
(***************************************************************************)
\* StateManager.mark_completed, before its save
MarkCompleted(s) == [s EXCEPT !.state = EnumMember(COMPLETED)]

MarkFailedWithoutRecord(s, error) == [s EXCEPT !.state = EnumMember(FAILED)]

\* StateManager.mark_failed, before its save
MarkFailed(s, error) ==
    [s EXCEPT !.state = EnumMember(FAILED),
              !.errors = Append(@, [type |-> "fatal", details |-> error])]

\* the closing message has been spoken; mark_completed saves the session and
\* stops the auto-save; the finally block starts
Closing ==
    /\ pc = "closing"
    /\ \E fate \in Fates :
         LET s == MarkCompleted(session) IN
         SaveAnd("mark_completed", s, fate, s, "finally", [orc EXCEPT !.exit = "ok"], FALSE, 0)
    /\ UNCHANGED <<clock, runs>>

\* _save_transcript: the metadata object of the first line (without the duration)
ExportMetadata(s, o) ==
    [ interview_id |-> output_filename_base(s.session_id),
      date |-> [iso |-> s.started_at.dt],
      total_questions |-> o.question_count,
      job_info |-> s.job_info,
      candidate_info |-> s.candidate_info ]

export_turns_only(s, o) == [k \in 1..Len(s.transcript) |-> DumpQA(s.transcript[k])]

\* _save_transcript: the lines written to the export file
export_lines(s, o) ==
    <<ExportMetadata(s, o)>> \o [k \in 1..Len(s.transcript) |-> DumpQA(s.transcript[k])]

\* the export files after _save_transcript: written, or (the write raises, which
\* is caught and logged) left as they were or truncated by the open
ExportsAfter(s, o, io) ==
    CASE io = "ok" -> [exports EXCEPT ![output_filename_base(s.session_id)] = export_lines(s, o)]
      [] io = "fail_open" -> exports
      [] OTHER -> [exports EXCEPT ![output_filename_base(s.session_id)] = NoExport]

ExportFates == IF incidents < MaxIncidents THEN {"ok", "fail_open", "fail_write"} ELSE {"ok"}

\* the finally block of orchestrator.run has run to its end: the statistics are
\* shown, _save_transcript has written the export (or logged its failure) and
\* _cleanup has released the recorder and closed the LLM client
Finally ==
    /\ pc = "finally"
    /\ pc' = "handler"
    /\ \E io \in ExportFates :
         /\ exports' = ExportsAfter(session, orc, io)
         /\ incidents' = incidents + (IF io = "ok" THEN 0 ELSE 1)
         /\ orc' = [orc EXCEPT !.fin = IF io = "ok" THEN "done" ELSE "export_failed"]
    /\ Note("finally")
    /\ UNCHANGED <<clock, disk, tmp, session, save_task, runs>>

\* _run_interview after "await orchestrator.run()": the run returned
HandlerCompleted ==
    /\ pc = "handler"
    /\ orc.exit = "ok"
    /\ \E fate \in Fates :
         LET s == MarkCompleted(session) IN
         SaveAnd("handler_completed", s, fate, s, "exiting", orc, FALSE, 0)
    /\ UNCHANGED <<clock, runs>>

\* the interrupt reaches _run_interview as KeyboardInterrupt (it was raised in
\* the task): "except KeyboardInterrupt" makes the status PAUSED and saves
HandlerPaused ==
    /\ pc = "handler"
    /\ orc.exit = "interrupted"
    /\ \E fate \in Fates :
         LET s == [session EXCEPT !.state = EnumMember(PAUSED)] IN
         SaveAnd("handler_paused", s, fate, s, "exiting", orc, save_task, 0)
    /\ UNCHANGED <<clock, runs>>

\* "except Exception": mark_failed saves the session and stops the auto-save
HandlerFailed ==
    /\ pc = "handler"
    /\ orc.exit = "exc"
    /\ \E fate \in Fates :
         LET s == MarkFailed(session, "error") IN
         SaveAnd("handler_failed", s, fate, s, "exiting", orc, FALSE, 0)
    /\ UNCHANGED <<clock, runs>>

\* the interrupt reaches _run_interview as CancelledError (the runner of the
\* event loop cancelled the task): neither except clause applies
HandlerNone ==
    /\ pc = "handler"
    /\ orc.exit = "interrupted"
    /\ pc' = "exiting"
    /\ Note("handler_none")
    /\ UNCHANGED <<clock, disk, tmp, exports, session, save_task, orc, runs, incidents>>

\* the process ends (the finally block of LocalInterviewApp.run)
Exit ==
    /\ pc = "exiting"
    /\ Dead
    /\ Note("exit")
    /\ UNCHANGED <<clock, disk, tmp, exports, runs, incidents>>

(***************************************************************************)
(* What the environment does to a running process.                         *)
(***************************************************************************)
\* the user stops the run (Ctrl-C) while it waits in orchestrator.run; the
\* exception unwinds through the finally block of run (a finally block that
\* is itself interrupted is left at once)
UserCancel ==
    /\ pc \in AwaitPcs
    /\ IF pc = "finally"
       THEN /\ orc' = [LeaveLoop(orc, "interrupted") EXCEPT !.fin = "cut"]
            /\ pc' = "handler"
            /\ exports' \in {exports, ExportsAfter(session, orc, "ok")}
       ELSE /\ orc' = LeaveLoop(orc, "interrupted")
            /\ pc' = "finally"
            /\ UNCHANGED exports
    /\ Note("user_cancel")
    /\ UNCHANGED <<clock, disk, tmp, session, save_task, runs, incidents>>

AutoSaveAlways(s) == s # NoSession

\* "if self.current_session and self.current_session.state == IN_PROGRESS"
AutoSaveDue(s) == s # NoSession /\ s.state.v = IN_PROGRESS

\* The positions at which a round of the auto-save loop is taken to be possible
\* while its task is scheduled: the suspension points of the run and, as an
\* over-approximation of the timer, the positions before and after the run
\* (where the status need not be IN_PROGRESS).
TimerPcs == AwaitPcs \cup {"created", "exiting"}

\* one round of _auto_save_loop after its sleep
AutoSave ==
    /\ pc \in TimerPcs
    /\ save_task
    /\ IF AutoSaveDue(session)
       THEN \E fate \in Fates :
              SaveAnd("auto_save", session, fate, session, pc, orc, save_task, 0)
       ELSE /\ hist' = [op |-> "auto_save", lastSave |-> "none", cleaned |-> 0,
                        saved |-> NoSession]
            /\ UNCHANGED <<disk, tmp, exports, pc, session, save_task, orc, incidents>>
    /\ UNCHANGED <<clock, runs>>

\* the process is killed outside save_state
Kill ==
    /\ pc # "none"
    /\ Dead
    /\ Note("kill")
    /\ UNCHANGED <<clock, disk, tmp, exports, runs, incidents>>

\* time passes while the candidate answers, or while no process runs
Tick ==
    /\ pc \in {"listen", "none"}
    /\ clock < MaxClock
    /\ clock' = clock + 1
    /\ UNCHANGED <<disk, tmp, exports, pc, session, save_task, orc, runs, incidents, hist>>

\* a state file becomes older than the cleanup cutoff
Age(id) ==
    /\ pc = "none"
    /\ disk[id].kind # "absent"
    /\ ~disk[id].old
    /\ disk' = [disk EXCEPT ![id].old = TRUE]
    /\ Note("age")
    /\ UNCHANGED <<clock, tmp, exports, pc, session, save_task, orc, runs, incidents>>

\* a state file is damaged from outside (edited, or overwritten by garbage)
Corrupt(id) ==
    /\ pc = "none"
    /\ disk[id].kind = "doc"
    /\ incidents < MaxIncidents
    /\ incidents' = incidents + 1
    /\ disk' = [disk EXCEPT ![id] = File("garbage", NoDoc, disk[id].old)]
    /\ Note("corrupt")
    /\ UNCHANGED <<clock, tmp, exports, pc, session, save_task, orc, runs>>

Next ==
    \/ StartCleanup
    \/ StartNew
    \/ \E sid \in Ids : StartResume(sid)
    \/ ResumeRecovered
    \/ ConstructorRaises
    \/ BeginInterview
    \/ Welcome
    \/ AskGenerated
    \/ AskFallback
    \/ TurnRaises
    \/ TtsWorkerTakes
    \/ SpeakUnit
    \/ UtteranceEnds
    \/ InterruptFires
    \/ ResolveRace
    \/ ListenAndCommit
    \/ PhaseDone
    \/ Closing
    \/ Finally
    \/ HandlerCompleted
    \/ HandlerPaused
    \/ HandlerFailed
    \/ HandlerNone
    \/ Exit
    \/ UserCancel
    \/ AutoSave
    \/ Kill
    \/ Tick
    \/ \E id \in Ids : Age(id)
    \/ \E id \in Ids : Corrupt(id)

Spec == Init /\ [][Next]_vars

(***************************************************************************)
(* StateManager used directly: one process that calls create_session any   *)
(* number of times (for several candidates), with or without time passing  *)
(* between two calls.                                                      *)
(***************************************************************************)
CandidateNames == {"Demo", "Ada", "Bob"}

InitManager ==
    /\ clock = 0
    /\ disk = [id \in Ids |-> Absent]
    /\ tmp = [id \in Ids |-> "absent"]
    /\ exports = [d \in Days |-> NoExport]
    /\ pc = "manager"
    /\ session = NoSession
    /\ save_task = FALSE
    /\ orc = OrcIdle
    /\ runs = 0
    /\ incidents = 0
    /\ hist = [op |-> "init", lastSave |-> "none", cleaned |-> 0, saved |-> NoSession]

\* StateManager.create_session(job, candidate): the id is made of the current
\* time, the new session becomes the current one and is saved
ManagerCreate(c) ==
    /\ pc = "manager"
    /\ runs < MaxCreates
    /\ runs' = runs + 1
    /\ \E fate \in Fates \ KillFates :
         LET s == [NewSession(clock, clock) EXCEPT !.candidate_info = [name |-> c]] IN
         SaveAnd("create_session", s, fate, s, pc, orc, TRUE, 0)
    /\ UNCHANGED clock

\* time passes between two calls
ManagerTick ==
    /\ pc = "manager"
    /\ clock < MaxClock
    /\ clock' = clock + 1
    /\ UNCHANGED <<disk, tmp, exports, pc, session, save_task, orc, runs, incidents, hist>>

NextManager ==
    \/ \E c \in CandidateNames : ManagerCreate(c)
    \/ ManagerTick

SpecManager == InitManager /\ [][NextManager]_vars


(***************************************************************************)
(* The phase loop of orchestrator.run under any configured list of phases  *)
(* (a list may name a phase more than once).  The questions of a phase are *)
(* left out: a phase that is entered is completed, or the run is stopped   *)
(* inside it and the session is resumed later from its file.  orc.phases   *)
(* is config.interview.interview_phases of the behaviour.                  *)
(***************************************************************************)
PhaseNames == {"warmup", "technical", "behavioral"}

PhaseLists == UNION {[1..n -> PhaseNames] : n \in 1..MaxPhaseList}

\* the phase loop from its k-th iteration up to the next suspension point
LoopIn(s, o, k) ==
    LET n == NextPhaseIn(o.phases, s.completed_phases, k) IN
    IF n = 0
    THEN [s |-> s, pc |-> "phases_done", o |-> o]
    ELSE [ s |-> [s EXCEPT !.current_phase = o.phases[n]],
           pc |-> "in_phase",
           o |-> [o EXCEPT !.pi = n, !.phase = o.phases[n]] ]

InitPhases ==
    \E l \in PhaseLists :
      LET s == [NewSession(0, 0) EXCEPT !.state = EnumMember(IN_PROGRESS),
                                        !.current_phase = l[1]]
      IN  /\ clock = 0
          /\ disk = [id \in Ids |-> IF id = 0 THEN File("doc", model_dump_json(s), FALSE)
                                     ELSE Absent]
          /\ tmp = [id \in Ids |-> "absent"]
          /\ exports = [d \in Days |-> NoExport]
          /\ pc = "in_phase"
          /\ session = s
          /\ save_task = TRUE
          /\ orc = [OrcIdle EXCEPT !.pi = 1, !.phase = l[1], !.own_file = TRUE]
                      @@ [phases |-> l]
          /\ runs = 1
          /\ incidents = 0
          /\ hist = [op |-> "init", lastSave |-> "none", cleaned |-> 0, saved |-> NoSession]

\* the last question of the phase has been committed: the phase is appended to
\* completed_phases, the session saved, and the loop goes on
PhaseCompleted ==
    /\ pc = "in_phase"
    /\ \E fate \in Fates \ KillFates :
         LET s == [session EXCEPT !.completed_phases = Append(@, orc.phase)]
             n == LoopIn(s, orc, orc.pi + 1)
         IN  SaveAnd("phase_done", s, fate, n.s, n.pc, n.o, save_task, 0)
    /\ UNCHANGED <<clock, runs>>

\* the run is stopped inside a phase and the process ends
PhaseStopped ==
    /\ pc = "in_phase"
    /\ pc' = "phase_stopped"
    /\ session' = NoSession
    /\ save_task' = FALSE
    /\ UNCHANGED <<clock, disk, tmp, exports, orc, runs, incidents, hist>>

\* a new process loads the session and enters the phase loop from its start
PhaseResumed ==
    /\ pc = "phase_stopped"
    /\ runs < MaxRuns + 1
    /\ runs' = runs + 1
    /\ LET n == LoopIn(load_session(0), orc, 1) IN
       /\ session' = n.s
       /\ pc' = n.pc
       /\ orc' = n.o
    /\ save_task' = TRUE
    /\ UNCHANGED <<clock, disk, tmp, exports, incidents, hist>>

NextPhases ==
    \/ PhaseCompleted
    \/ PhaseStopped
    \/ PhaseResumed

SpecPhases == InitPhases /\ [][NextPhases]_vars


(***************************************************************************)
(* Pyttsx3Client on its own: coroutines call text_to_speech_and_play and   *)
(* stop_playback, the worker thread runs _tts_worker.  An utterance is the *)
(* number of its call.  orc holds the client: tts_queue; the position of   *)
(* the worker (wpos) and the utterance it has in hand (current); the       *)
(* utterances the engine is synthesizing (speaking); the order in which    *)
(* engine.say was called (said); how each utterance ended (outcome); the   *)
(* utterances whose complete_event is set (complete).                      *)
(***************************************************************************)
Utterances == 1..MaxUtterances

UtteranceFates == {"finished", "failed", "timeout"}

InitTts ==
    /\ clock = 0
    /\ disk = [id \in Ids |-> Absent]
    /\ tmp = [id \in Ids |-> "absent"]
    /\ exports = [d \in Days |-> NoExport]
    /\ pc = "tts"
    /\ session = NoSession
    /\ save_task = FALSE
    /\ orc = [ calls |-> 0, tts_queue |-> <<>>, wpos |-> "idle", current |-> 0,
               speaking |-> {}, said |-> <<>>,
               outcome |-> [u \in Utterances |-> "none"], complete |-> {},
               interruption_event |-> FALSE ]
    /\ runs = 0
    /\ incidents = 0
    /\ hist = [op |-> "init", lastSave |-> "none", cleaned |-> 0, saved |-> NoSession]

\* text_to_speech_and_play up to its await: the text and a new event are put on
\* the queue
TtsPut ==
    /\ pc = "tts"
    /\ orc.calls < MaxUtterances
    /\ orc' = [orc EXCEPT !.calls = @ + 1, !.tts_queue = Append(@, orc.calls + 1)]
    /\ UNCHANGED <<clock, disk, tmp, exports, pc, session, save_task, runs, incidents, hist>>

\* stop_playback
TtsStopPlayback ==
    /\ pc = "tts"
    /\ orc' = [orc EXCEPT !.interruption_event = TRUE, !.tts_queue = <<>>]
    /\ UNCHANGED <<clock, disk, tmp, exports, pc, session, save_task, runs, incidents, hist>>

WorkerNeverWaits(o) == TRUE

\* the worker is at tts_queue.get: it has set the event of the utterance before
WorkerAtGet(o) == o.wpos = "idle"

\* _tts_worker: tts_queue.get returns the oldest task; engine.say, startLoop
TtsSay ==
    /\ pc = "tts"
    /\ WorkerAtGet(orc)
    /\ orc.tts_queue # <<>>
    /\ LET u == Head(orc.tts_queue) IN
       orc' = [orc EXCEPT !.tts_queue = Tail(@), !.wpos = "speaking", !.current = u,
                          !.speaking = @ \cup {u}, !.said = Append(@, u)]
    /\ UNCHANGED <<clock, disk, tmp, exports, pc, session, save_task, runs, incidents, hist>>

\* _tts_worker: the utterance in hand is over: the finished-utterance callback
\* has set utterance_complete, or 30 seconds have passed, and engine.endLoop()
\* has ended the utterance; or the engine has raised
TtsUtteranceOver(fate) ==
    /\ pc = "tts"
    /\ orc.wpos = "speaking"
    /\ orc' = [orc EXCEPT !.wpos = "over", !.speaking = @ \ {orc.current},
                          !.outcome[orc.current] = fate]
    /\ UNCHANGED <<clock, disk, tmp, exports, pc, session, save_task, runs, incidents, hist>>

\* _tts_worker: "complete_event.set()", after the sleep or in the except clause
TtsSignal ==
    /\ pc = "tts"
    /\ orc.wpos = "over"
    /\ orc' = [orc EXCEPT !.wpos = "idle", !.complete = @ \cup {orc.current}]
    /\ UNCHANGED <<clock, disk, tmp, exports, pc, session, save_task, runs, incidents, hist>>

NextTts ==
    \/ TtsPut
    \/ TtsStopPlayback
    \/ TtsSay
    \/ \E fate \in UtteranceFates : TtsUtteranceOver(fate)
    \/ TtsSignal

SpecTts == InitTts /\ [][NextTts]_vars


(***************************************************************************)
(* A collaborator call under api_retry_handler (error_handlers.py): the    *)
(* wrapped coroutine is generate_response (called by _ask_ai_question) or  *)
(* transcribe_audio (called by _listen).  orc.fates gives what each        *)
(* attempt would do, were it made: return ("ok") or raise an error.        *)
(***************************************************************************)
AttemptFates == {"ok", "ConnectionError", "TimeoutError"}

RetryCallers == {"generate_response", "transcribe_audio"}

\* "stop=stop_after_attempt(3)"
MaxAttempts == 3

never_stop(attempt_number) == FALSE

\* tenacity.stop_after_attempt
stop_after_attempt(attempt_number) == attempt_number >= MaxAttempts

InitRetry ==
    /\ clock = 0
    /\ disk = [id \in Ids |-> Absent]
    /\ tmp = [id \in Ids |-> "absent"]
    /\ exports = [d \in Days |-> NoExport]
    /\ pc = "retry"
    /\ session = NoSession
    /\ save_task = FALSE
    /\ \E c \in RetryCallers, f \in [1..RetryHorizon -> AttemptFates] :
         orc = [ caller |-> c, fates |-> f, attempts |-> 0, raised |-> "none",
                 text |-> EmptyText ]
    /\ runs = 0
    /\ incidents = 0
    /\ hist = [op |-> "init", lastSave |-> "none", cleaned |-> 0, saved |-> NoSession]

\* one attempt of the wrapper: the result is returned, or the error is raised
\* again after the last attempt (reraise=True), or the call is tried once more
RetryAttempt ==
    /\ pc = "retry"
    /\ orc.attempts < RetryHorizon
    /\ LET k == orc.attempts + 1
           fate == orc.fates[k]
       IN  IF fate = "ok"
           THEN /\ orc' = [orc EXCEPT !.attempts = k]
                /\ pc' = "returned"
           ELSE IF stop_after_attempt(k)
           THEN /\ orc' = [orc EXCEPT !.attempts = k, !.raised = fate]
                /\ pc' = "raised"
           ELSE /\ orc' = [orc EXCEPT !.attempts = k]
                /\ pc' = pc
    /\ UNCHANGED <<clock, disk, tmp, exports, session, save_task, runs, incidents, hist>>

\* the caller: _ask_ai_question takes the generated question or, in its except
\* clause, a canned one; _listen takes the transcript or the sentinel
RetryCallerGoesOn ==
    /\ pc \in {"returned", "raised"}
    /\ \E q \in fallback_questions("warmup") :
         orc' = [orc EXCEPT !.text =
                   IF orc.caller = "generate_response"
                   THEN (IF pc = "returned" THEN GeneratedQuestion ELSE q)
                   ELSE (IF pc = "returned" THEN TranscribedAnswer ELSE Sentinel)]
    /\ pc' = "retry_done"
    /\ UNCHANGED <<clock, disk, tmp, exports, session, save_task, runs, incidents, hist>>

NextRetry ==
    \/ RetryAttempt
    \/ RetryCallerGoesOn

SpecRetry == InitRetry /\ [][NextRetry]_vars


(***************************************************************************)
(* The auto-save task of a StateManager that is called directly, in any    *)
(* order: create_session, load_session, mark_completed, mark_failed.       *)
(* orc.tasks gives each asyncio task that was created its status:          *)
(* "scheduled", "cancelling" (cancel() was called on it) or "done";        *)
(* orc.task is _save_task (0 is None); orc.last is the last call.          *)
(***************************************************************************)
TaskIds == 1..MaxTasks

start_always(o) == TRUE

\* "if self._save_task is None or self._save_task.done()"
start_needed(o) == o.task = 0 \/ o.tasks[o.task] = "done"

\* StateManager._start_auto_save
start_auto_save(o) ==
    IF start_needed(o)
    THEN LET new == o.created + 1 IN
         [o EXCEPT !.created = new, !.tasks[new] = "scheduled", !.task = new]
    ELSE o

\* StateManager._stop_auto_save
stop_auto_save(o) ==
    IF o.task # 0
    THEN [o EXCEPT !.tasks[o.task] = IF @ = "done" THEN "done" ELSE "cancelling",
                   !.task = 0]
    ELSE o

InitTasks ==
    /\ clock = 0
    /\ disk = [id \in Ids |-> Absent]
    /\ tmp = [id \in Ids |-> "absent"]
    /\ exports = [d \in Days |-> NoExport]
    /\ pc = "tasks"
    /\ session = NoSession
    /\ save_task = FALSE
    /\ orc = [ tasks |-> [k \in TaskIds |-> "none"], created |-> 0, task |-> 0,
               last |-> "init" ]
    /\ runs = 0
    /\ incidents = 0
    /\ hist = [op |-> "init", lastSave |-> "none", cleaned |-> 0, saved |-> NoSession]

\* a call is made while the bounds allow one more call and one more task
TaskCall == pc = "tasks" /\ runs < MaxCalls /\ orc.created < MaxTasks

\* the files and the history after save_state of s
TaskSave(s, fate) ==
    /\ disk' = FinalFileAfterSave(Stamp(s), fate)
    /\ tmp' = TempFileAfterSave(Stamp(s), fate)
    /\ incidents' = incidents + (IF fate = "ok" THEN 0 ELSE 1)
    /\ hist' = [op |-> "step", lastSave |-> fate, cleaned |-> 0,
                saved |-> IF fate = "ok" THEN Stamp(s) ELSE NoSession]
    /\ session' = Stamp(s)

\* create_session: the new session is saved and the auto-save is started
TaskCreateSession ==
    /\ TaskCall
    /\ runs' = runs + 1
    /\ \E fate \in Fates \ KillFates : TaskSave(NewSession(clock, clock), fate)
    /\ orc' = [start_auto_save(orc) EXCEPT !.last = "create_session"]
    /\ save_task' = TRUE
    /\ UNCHANGED <<clock, exports, pc>>

\* load_session: the auto-save is started when the session was loaded
TaskLoadSession(sid) ==
    /\ TaskCall
    /\ runs' = runs + 1
    /\ LET s == load_session(sid) IN
       IF s = NoSession
       THEN /\ orc' = [orc EXCEPT !.last = "load_failed"]
            /\ UNCHANGED <<session, save_task>>
       ELSE /\ session' = s
            /\ orc' = [start_auto_save(orc) EXCEPT !.last = "load_session"]
            /\ save_task' = TRUE
    /\ UNCHANGED <<clock, disk, tmp, exports, pc, incidents, hist>>

\* mark_completed: status, save, stop of the auto-save
TaskMarkCompleted ==
    /\ TaskCall
    /\ HasSession
    /\ runs' = runs + 1
    /\ \E fate \in Fates \ KillFates : TaskSave(MarkCompleted(session), fate)
    /\ orc' = [stop_auto_save(orc) EXCEPT !.last = "mark_completed"]
    /\ save_task' = FALSE
    /\ UNCHANGED <<clock, exports, pc>>

\* mark_failed: status, error, save, stop of the auto-save
TaskMarkFailed ==
    /\ TaskCall
    /\ HasSession
    /\ runs' = runs + 1
    /\ \E fate \in Fates \ KillFates : TaskSave(MarkFailed(session, "error"), fate)
    /\ orc' = [stop_auto_save(orc) EXCEPT !.last = "mark_failed"]
    /\ save_task' = FALSE
    /\ UNCHANGED <<clock, exports, pc>>

\* the event loop runs a task on which cancel() was called, or cancels the
\* tasks that are left when it shuts down: the task is done
TaskEnds(k) ==
    /\ pc = "tasks"
    /\ orc.tasks[k] \in {"scheduled", "cancelling"}
    /\ orc' = [orc EXCEPT !.tasks[k] = "done"]
    /\ UNCHANGED <<clock, disk, tmp, exports, pc, session, save_task, runs, incidents, hist>>

\* time passes between two calls
TaskTick ==
    /\ pc = "tasks"
    /\ clock < MaxClock
    /\ clock' = clock + 1
    /\ UNCHANGED <<disk, tmp, exports, pc, session, save_task, orc, runs, incidents, hist>>

NextTasks ==
    \/ TaskCreateSession
    \/ \E sid \in Ids : TaskLoadSession(sid)
    \/ TaskMarkCompleted
    \/ TaskMarkFailed
    \/ \E k \in TaskIds : TaskEnds(k)
    \/ TaskTick

SpecTasks == InitTasks /\ [][NextTasks]_vars


(***************************************************************************)
(* AudioRecorder: start_recording and stop_recording.  orc.rpos gives the  *)
(* position of each caller of start_recording: "idle" (no call in          *)
(* progress) or "sleep" (in the loop, at "await asyncio.sleep(0.01)");     *)
(* orc.outcome is how the last call of each caller ended; orc.frames is    *)
(* the number of chunks in self.frames.  The callbacks on_speech_start,    *)
(* on_speech_end and on_audio_chunk are None, as __init__ leaves them.     *)
(***************************************************************************)
RecCallers == 1..NumCallers

\* what one pass of the loop meets
ReadEvents == {"chunk", "silence_long", "max_duration", "read_error"}

OpenFates == {"ok", "raises"}

\* AudioRecorder.stop_recording
stop_recording(o) == [o EXCEPT !.is_recording = FALSE, !.stream = "none"]

\* AudioRecorder._frames_to_wav
frames_to_wav(frames) == IF frames = 0 THEN "empty" ELSE "wav"

\* the statements after the loop: stop_recording, the statistics, the return
RecordingReturns(o, c) ==
    [stop_recording(o) EXCEPT !.rpos[c] = "idle",
                              !.outcome[c] = frames_to_wav(o.frames),
                              !.total_recordings = @ + 1]

\* one pass of "while self.is_recording", from the test to the sleep or to the
\* statements after the loop
RecordingLoop(o, c, ev) ==
    IF ~o.is_recording THEN RecordingReturns(o, c)
    ELSE CASE ev = "max_duration" -> RecordingReturns(o, c)
           [] ev = "read_error" -> RecordingReturns(o, c)
           [] ev = "silence_long" ->
                RecordingReturns([o EXCEPT !.frames = IF @ < MaxFrames THEN @ + 1 ELSE @], c)
           [] OTHER ->
                [o EXCEPT !.frames = IF @ < MaxFrames THEN @ + 1 ELSE @, !.rpos[c] = "sleep"]

InitRecorder ==
    /\ clock = 0
    /\ disk = [id \in Ids |-> Absent]
    /\ tmp = [id \in Ids |-> "absent"]
    /\ exports = [d \in Days |-> NoExport]
    /\ pc = "recorder"
    /\ session = NoSession
    /\ save_task = FALSE
    /\ orc = [ is_recording |-> FALSE, stream |-> "none", frames |-> 0,
               rpos |-> [c \in RecCallers |-> "idle"],
               outcome |-> [c \in RecCallers |-> "none"],
               total_recordings |-> 0 ]
    /\ runs = 0
    /\ incidents = 0
    /\ hist = [op |-> "init", lastSave |-> "none", cleaned |-> 0, saved |-> NoSession]

\* start_recording is called: it returns b'' while a recording is going on;
\* else it opens the stream and runs the loop up to its first sleep
StartRecording(c) ==
    /\ pc = "recorder"
    /\ orc.rpos[c] = "idle"
    /\ runs < MaxRecordings
    /\ runs' = runs + 1
    /\ IF orc.is_recording
       THEN orc' = [orc EXCEPT !.outcome[c] = "refused"]
       ELSE \E open \in OpenFates, ev \in ReadEvents :
              LET o == [orc EXCEPT !.is_recording = TRUE, !.frames = 0, !.outcome[c] = "none"] IN
              IF open = "raises"
              THEN orc' = [stop_recording(o) EXCEPT !.outcome[c] = "raised"]
              ELSE orc' = RecordingLoop([o EXCEPT !.stream = "open"], c, ev)
    /\ UNCHANGED <<clock, disk, tmp, exports, pc, session, save_task, incidents, hist>>

\* the sleep of the loop is over: the next pass
RecordingWakes(c) ==
    /\ pc = "recorder"
    /\ orc.rpos[c] = "sleep"
    /\ \E ev \in ReadEvents : orc' = RecordingLoop(orc, c, ev)
    /\ UNCHANGED <<clock, disk, tmp, exports, pc, session, save_task, runs, incidents, hist>>

\* the task that awaits start_recording is cancelled: CancelledError is raised
\* at the sleep; it is not an Exception, so "except Exception" lets it pass
RecordingCancelled(c) ==
    /\ pc = "recorder"
    /\ orc.rpos[c] = "sleep"
    /\ orc' = [orc EXCEPT !.rpos[c] = "idle", !.outcome[c] = "cancelled"]
    /\ UNCHANGED <<clock, disk, tmp, exports, pc, session, save_task, runs, incidents, hist>>

\* stop_recording is called from outside start_recording (cleanup does)
StopRecording ==
    /\ pc = "recorder"
    /\ orc.is_recording
    /\ orc' = stop_recording(orc)
    /\ UNCHANGED <<clock, disk, tmp, exports, pc, session, save_task, runs, incidents, hist>>

NextRecorder ==
    \/ \E c \in RecCallers : StartRecording(c)
    \/ \E c \in RecCallers : RecordingWakes(c)
    \/ \E c \in RecCallers : RecordingCancelled(c)
    \/ StopRecording

SpecRecorder == InitRecorder /\ [][NextRecorder]_vars


(***************************************************************************)
(* The run under fair scheduling.  The event loop of asyncio resumes every  *)
(* coroutine that is ready, and every collaborator call (the language      *)
(* model, the TTS worker, the recorder, the transcriber) returns, with a   *)
(* result or with an exception: each step of orchestrator.run that is      *)
(* enabled is eventually taken.  The process is not killed, and no         *)
(* exception other than a failure of a collaborator is raised; the user    *)
(* may still stop the run.  The files of the state directory are touched   *)
(* by the processes of the application only.                               *)
(***************************************************************************)
\* a step in which the process is not killed in the middle of a save
Survives(A) == A /\ hist'.lastSave \notin KillFates

NextLive ==
    \/ Survives(StartNew)
    \/ \E sid \in Ids : StartResume(sid)
    \/ ResumeRecovered
    \/ Survives(BeginInterview)
    \/ Welcome
    \/ AskGenerated
    \/ AskFallback
    \/ TtsWorkerTakes
    \/ SpeakUnit
    \/ UtteranceEnds
    \/ InterruptFires
    \/ ResolveRace
    \/ Survives(ListenAndCommit)
    \/ Survives(PhaseDone)
    \/ Survives(Closing)
    \/ Survives(Finally)
    \/ Survives(HandlerCompleted)
    \/ Survives(HandlerPaused)
    \/ HandlerNone
    \/ Exit
    \/ UserCancel
    \/ Survives(AutoSave)
    \/ Tick

\* the steps of orchestrator.run from its start to mark_completed
RunStep ==
    \/ Survives(BeginInterview)
    \/ Welcome
    \/ AskGenerated
    \/ TtsWorkerTakes
    \/ SpeakUnit
    \/ ResolveRace
    \/ Survives(ListenAndCommit)
    \/ Survives(PhaseDone)
    \/ Survives(Closing)

SpecLive == Init /\ [][NextLive]_vars /\ WF_vars(RunStep)

(***************************************************************************)
(* Properties.                                                             *)
(***************************************************************************)
WellPaired(t) ==
    /\ Len(t) % 2 = 0
    /\ \A k \in 1..Len(t) : t[k].role = (IF k % 2 = 1 THEN "ai" ELSE "human")

\* C1: after N committed exchanges (those of the loaded session plus those of
\* this run) the transcript has length 2N and alternates AI, HUMAN, starting with
\* AI; so does every transcript on disk.
C1_TranscriptPairs ==
    /\ HasSession =>
         /\ WellPaired(session.transcript)
         /\ orc.loaded_len % 2 = 0
         /\ Len(session.transcript) = 2 * ((orc.loaded_len \div 2) + orc.run_commits)
    /\ \A id \in Ids : disk[id].kind = "doc" => WellPaired(disk[id].doc.transcript)

C1_Witness ==
    /\ HasSession
    /\ orc.loaded_len >= 2
    /\ orc.run_commits >= 1
    /\ \E k \in 1..Len(session.transcript) : session.transcript[k].text \in {EmptyText, Sentinel}

AllowedEdges ==
    { <<NOT_STARTED, IN_PROGRESS>>, <<IN_PROGRESS, PAUSED>>, <<IN_PROGRESS, COMPLETED>>,
      <<IN_PROGRESS, FAILED>>, <<PAUSED, IN_PROGRESS>> }

\* C2: the status of a session changes only along the edges of the state machine;
\* COMPLETED and FAILED are never left.
C2_StatusEdges ==
    [][ ( /\ HasSession
          /\ HasSession'
          /\ session'.session_id = session.session_id
          /\ session'.state.v # session.state.v )
        => <<session.state.v, session'.state.v>> \in AllowedEdges ]_vars

TurnPcs == {"ask", "race", "listen", "phase_done"}

\* C3: a run asks no question and commits no turn in a phase that was in
\* completed_phases of the session when it was loaded.
C3_NoReask ==
    (pc \in TurnPcs \/ orc.committed) => orc.phase \notin orc.loaded_completed

C3_Witness ==
    /\ orc.loaded_completed # {}
    /\ orc.committed
    /\ orc.run_commits >= 1

\* equality of two sessions in memory (an enum member equals its string value) in
\* every field but last_checkpoint
EqualExceptCheckpoint(a, b) ==
    /\ a.session_id = b.session_id
    /\ a.state.v = b.state.v
    /\ a.job_info = b.job_info
    /\ a.candidate_info = b.candidate_info
    /\ a.current_phase = b.current_phase
    /\ a.current_question_index = b.current_question_index
    /\ a.completed_phases = b.completed_phases
    /\ a.transcript = b.transcript
    /\ a.started_at = b.started_at
    /\ a.errors = b.errors

C5_CrashSafeSave ==
    [][ \A id \in Ids :
          /\ disk'[id].kind # "torn"
          /\ hist'.lastSave \in KillFates => disk'[id] = disk[id] ]_vars

C5_Witness ==
    /\ hist.lastSave = "kill_write"
    /\ pc = "none"
    /\ \E id \in Ids :
         /\ tmp[id] = "torn"
         /\ disk[id].kind = "doc"
         /\ Len(disk[id].doc.transcript) >= 2

Recoverable(f) == f.kind = "doc" /\ f.doc.state \in {IN_PROGRESS, PAUSED}

\* C6: a cleanup run leaves every file of an IN_PROGRESS or PAUSED session in
\* place, whatever its age.
C6_CleanupKeepsRecoverable ==
    [][ hist'.op = "cleanup" =>
          \A id \in Ids : Recoverable(disk[id]) => disk'[id] = disk[id] ]_vars

C6_Witness ==
    /\ hist.op = "cleanup"
    /\ hist.cleaned >= 1
    /\ \E id \in Ids : Recoverable(disk[id]) /\ disk[id].old /\ disk[id].doc.state = PAUSED

LastAi == session.transcript[Len(session.transcript) - 1]
LastHuman == session.transcript[Len(session.transcript)]

\* C7: when the interruption fires before the speak task has finished a question of
\* several units, the committed AI turn holds only the units spoken so far.
C7_PartialQuestion ==
    ( /\ orc.committed
      /\ orc.race = "interrupt_first"
      /\ ~orc.speak_done
      /\ Len(orc.question) > 1 )
    => /\ orc.spoken < Len(orc.question)
       /\ LastAi.text = SubSeq(orc.question, 1, orc.spoken)

\* C8: one answer capture per question, started only after the race is resolved.
C8_OneCapture ==
    /\ pc = "race" => orc.captures = 0
    /\ orc.captures > 0 =>
         /\ orc.speak_done \/ orc.interrupt_fired
         /\ orc.race \in {"speak_first", "interrupt_first"}
    /\ (pc = "listen" \/ orc.committed) => orc.captures = 1

C8_Witness ==
    /\ orc.committed
    /\ orc.race = "interrupt_first"
    /\ ~orc.speak_done
    /\ orc.captures = 1

RECURSIVE SumQuestions(_)
SumQuestions(k) ==
    IF k = 0 THEN 0 ELSE questions_per_phase[interview_phases[k]] + SumQuestions(k - 1)

\* C9: a run of a fresh session with no failure, interruption or cancel ends
\* COMPLETED, with completed_phases the configured list and one pair per
\* configured question, each the generated question and the transcribed answer.
C9_CleanRun ==
    (pc = "exiting" /\ orc.fresh /\ orc.clean) =>
        /\ session.state.v = COMPLETED
        /\ session.completed_phases = interview_phases
        /\ Len(session.transcript) = 2 * SumQuestions(Len(interview_phases))
        /\ \A k \in 1..Len(session.transcript) :
             /\ session.transcript[k].role = (IF k % 2 = 1 THEN "ai" ELSE "human")
             /\ session.transcript[k].text =
                  (IF k % 2 = 1 THEN GeneratedQuestion ELSE TranscribedAnswer)

C9_Witness ==
    /\ pc = "exiting"
    /\ orc.fresh
    /\ orc.clean
    /\ Len(session.transcript) >= 4

ListenFaults == {"record_raises", "transcribe_raises"}

\* C10: when recording or transcription raises, the turn is still committed, its
\* HUMAN text is the sentinel, no exception leaves the turn and the run goes on.
C10_SentinelAnswer ==
    orc.listen \in ListenFaults =>
        /\ orc.committed
        /\ orc.exit = "ok"
        /\ LastHuman.text = Sentinel
        /\ LastAi.text = orc.question
        /\ session.state.v \notin {FAILED, PAUSED}

C10_Witness ==
    /\ orc.listen = "transcribe_raises"
    /\ orc.committed
    /\ pc = "ask"

CannedTable ==
    [ warmup |-> {<<"warmup_fb1?">>, <<"warmup_fb2?">>},
      technical |-> {<<"technical_fb1?">>, <<"technical_fb2?">>},
      behavioral |-> {<<"behavioral_fb1?">>, <<"behavioral_fb2?">>},
      situational |-> {<<"situational_fb1?">>, <<"situational_fb2?">>},
      closing |-> {<<"closing_fb1?">>, <<"closing_fb2?">>} ]

ExpectedCanned(phase) ==
    IF phase \in DOMAIN CannedTable THEN CannedTable[phase] ELSE CannedTable["technical"]

\* orc.question is a question of orc.phase (the loop has not moved to a later phase)
QuestionOfPhase == pc \in {"race", "listen", "phase_done"} \/ (pc = "ask" /\ orc.i > 0)

\* C11: when question generation fails, the question of the turn is a canned
\* question of the current phase (of the technical phase for a phase without
\* canned questions); the failure does not leave the turn, which goes on to the
\* race, the answer and the commit.
C11_FallbackQuestion ==
    /\ (orc.gen = "failed" /\ QuestionOfPhase) =>
         /\ orc.question \in ExpectedCanned(orc.phase)
         /\ orc.exit = "ok"
         /\ IF orc.committed THEN LastAi.text = orc.question ELSE pc \in {"race", "listen"}
    /\ \A p \in Range(ConfigPhases) \cup {"custom"} : fallback_questions(p) = ExpectedCanned(p)

C11_Witness ==
    /\ orc.gen = "failed"
    /\ orc.phase = "warmup"
    /\ pc = "phase_done"
    /\ orc.committed
    /\ LastHuman.text = TranscribedAnswer

EntriesOf(id) == {k \in DOMAIN get_recovery_info : get_recovery_info[k].session_id = id}

\* C12: the recovery list holds exactly one entry for each persisted session that
\* is IN_PROGRESS or PAUSED and none for any other file; a file that does not
\* parse is skipped and the scan goes on.
C12_RecoveryList ==
    /\ \A id \in Ids :
         Cardinality(EntriesOf(id)) = (IF Recoverable(disk[id]) THEN 1 ELSE 0)
    /\ \A k \in DOMAIN get_recovery_info :
         LET e == get_recovery_info[k] IN
         /\ e.session_id \in Ids
         /\ e.candidate_name = disk[e.session_id].doc.candidate_info.name
         /\ e.position = disk[e.session_id].doc.job_info.title

C12_Witness ==
    /\ pc = "none"
    /\ Len(get_recovery_info) = 1
    /\ \E a, b \in Ids :
         /\ disk[a].kind = "garbage"
         /\ a < b
         /\ Recoverable(disk[b])
         /\ disk[b].doc.state = PAUSED

Unparsable(f) == f.kind \in {"garbage", "torn"}

\* C13: load_session signals an absent file and a file that does not deserialize
\* to its caller by two different results (NotFound, CorruptState).
C13_LoadFailureSignals ==
    \A a, b \in Ids :
        (disk[a].kind = "absent" /\ Unparsable(disk[b])) => load_session(a) # load_session(b)

\* C14: when the user cancels the run, _run_interview ends with the status PAUSED
\* (not FAILED, not still IN_PROGRESS) and has called save_state with it.
C14_CancelPauses ==
    (pc = "exiting" /\ orc.exit = "interrupted") =>
        /\ session.state.v = PAUSED
        /\ hist.lastSave # "none"

\* C15: when an exception other than a user cancel leaves orchestrator.run, the
\* status becomes FAILED, one entry describing the error is appended to errors,
\* save_state writes the session with both changes (unless the write itself
\* fails), the auto-save task is stopped and the exception goes on to the caller.
C15_FailureRecorded ==
    [][ (pc = "handler" /\ orc.exit = "exc" /\ pc' = "exiting") =>
          /\ session'.state.v = FAILED
          /\ session'.errors = Append(session.errors, [type |-> "fatal", details |-> "error"])
          /\ hist'.lastSave \in {"ok"} \cup FailFates
          /\ hist'.lastSave = "ok" =>
                disk'[session.session_id] = File("doc", model_dump_json(session'), FALSE)
          /\ ~save_task'
          /\ orc'.exit = "exc" ]_vars

C15_Witness ==
    /\ pc = "exiting"
    /\ orc.exit = "exc"
    /\ session.state.v = FAILED
    /\ Len(session.errors) = 1
    /\ Len(session.transcript) >= 2
    /\ hist.lastSave = "ok"
    /\ disk[session.session_id].doc.state = FAILED
    /\ Len(disk[session.session_id].doc.errors) = 1

\* C16: every step that takes the status of the session out of IN_PROGRESS (to
\* PAUSED, COMPLETED or FAILED) leaves no auto-save task scheduled.
C16_AutoSaveCancelled ==
    [][ ( /\ HasSession
          /\ HasSession'
          /\ session.state.v = IN_PROGRESS
          /\ session'.state.v # IN_PROGRESS )
        => ~save_task' ]_vars

\* C17: a round of the auto-save loop writes only when the status of the current
\* session is IN_PROGRESS at the tick, and what it writes is the current session
\* (stamped), to the file of that session; otherwise it writes nothing.
C17_AutoSaveGuard ==
    [][ hist'.op = "auto_save" =>
          IF HasSession /\ session.state.v = IN_PROGRESS
          THEN \A id \in Ids :
                 disk'[id] # disk[id] =>
                    /\ id = session.session_id
                    /\ disk'[id] = File("doc", model_dump_json(Stamp(session)), FALSE)
          ELSE disk' = disk ]_vars

C17_Witness ==
    /\ hist.op = "auto_save"
    /\ hist.lastSave = "ok"
    /\ pc = "listen"
    /\ Len(session.transcript) >= 2
    /\ disk[session.session_id].doc.last_checkpoint.iso > session.started_at.dt

RECURSIVE QuestionsOf(_)
\* the number of questions configured for the phases of a list
QuestionsOf(phases) ==
    IF phases = <<>> THEN 0
    ELSE questions_per_phase[Head(phases)] + QuestionsOf(Tail(phases))

PhasesBacked(s) == Len(s.transcript) >= 2 * QuestionsOf(s.completed_phases)

\* C18: completed_phases grows only by the phase whose last configured question
\* has just been committed; no phase is marked while the run is inside it, or by
\* a run that was cancelled or failed; every session, in memory and on disk,
\* holds at least the pairs of the questions of its completed phases.
C18_CompletedPhases ==
    /\ [](HasSession =>
            /\ PhasesBacked(session)
            /\ pc \in {"ask", "race", "listen", "phase_done"} =>
                  orc.phase \notin Range(session.completed_phases))
    /\ [](\A id \in Ids : disk[id].kind = "doc" => PhasesBacked(disk[id].doc))
    /\ [][ ( /\ HasSession
             /\ HasSession'
             /\ session'.session_id = session.session_id
             /\ session'.completed_phases # session.completed_phases )
           => /\ pc = "phase_done"
              /\ orc.exit = "ok"
              /\ orc.committed
              /\ orc.i + 1 = questions_per_phase[orc.phase]
              /\ orc.run_commits >= questions_per_phase[orc.phase]
              /\ session'.completed_phases = Append(session.completed_phases, orc.phase) ]_vars

C18_Witness ==
    /\ HasSession
    /\ orc.loaded_completed = {"warmup"}
    /\ orc.loaded_len = 4
    /\ session.completed_phases = <<"warmup", "technical">>
    /\ Len(session.transcript) = 8

ExportOfSession == exports[output_filename_base(session.session_id)]

\* C19: the run is left (returning or raising) only through its finally block,
\* on every exit path; when the block has run to its end and the export could be
\* written, the export holds one metadata line followed by one line per committed
\* turn, in order.
C19_FinallyBlock ==
    (pc \in {"handler", "exiting"} /\ orc.exit \in {"ok", "exc", "interrupted"}) =>
        /\ orc.fin \in {"done", "export_failed", "cut"}
        /\ orc.fin = "cut" => orc.exit = "interrupted"
        /\ orc.fin = "done" =>
              /\ Len(ExportOfSession) = 1 + Len(session.transcript)
              /\ ExportOfSession[1].interview_id = output_filename_base(session.session_id)
              /\ ExportOfSession[1].total_questions = orc.question_count
              /\ \A k \in 1..Len(session.transcript) :
                    ExportOfSession[k + 1] = DumpQA(session.transcript[k])

C19_Witness ==
    /\ pc = "handler"
    /\ orc.exit = "exc"
    /\ orc.fin = "done"
    /\ Len(session.transcript) >= 2
    /\ Len(ExportOfSession) = 1 + Len(session.transcript)

\* C20: two sessions created in one process get different session ids: a
\* create_session never writes the file that holds an earlier session.
C20_DistinctIds ==
    [][ runs' = runs + 1 => disk[session'.session_id].kind = "absent" ]_vars

Finished(f) == f.kind = "doc" /\ f.doc.state \in {COMPLETED, FAILED}

\* C21: a cleanup run deletes a state file if and only if the file is older than
\* the cutoff and holds a COMPLETED or FAILED session; every other file (newer,
\* of another status, or not parsable) is left as it is, and the scan goes on
\* past a file that does not parse.
C21_CleanupExactly ==
    [][ (hist'.op = "cleanup" /\ hist.op # "cleanup") =>
          /\ \A id \in Ids :
                disk'[id] = (IF disk[id].old /\ Finished(disk[id]) THEN Absent ELSE disk[id])
          /\ hist'.cleaned = Cardinality({id \in Ids : disk[id].old /\ Finished(disk[id])}) ]_vars

C21_Witness ==
    /\ hist.op = "cleanup"
    /\ hist.cleaned = 1
    /\ \E a, b \in Ids :
         /\ a < b
         /\ disk[a].kind = "garbage"
         /\ disk[a].old
         /\ disk[b] = Absent

\* C22: when the interruption fires first the playback is halted at once: while
\* the answer of the candidate is being recorded after an interruption, the TTS
\* worker is not playing a unit of the question.
C22_PlaybackHalted ==
    (pc = "listen" /\ orc.race = "interrupt_first") => orc.tts # "playing"

\* C23: when no interruption fires, every sentence unit of the question has been
\* spoken, in order, and _speak has returned True before the answer is captured.
C23_AllUnitsSpoken ==
    (pc = "listen" /\ orc.race = "speak_first" /\ ~orc.interrupt_fired) =>
        /\ orc.spoken = Len(orc.question)
        /\ orc.speak_result = "True"

\* every task of the race is done or has had cancel() called on it
LoserCancelled ==
    /\ orc.speak_done \/ "speak" \in orc.cancelled
    /\ orc.interrupt_fired \/ "interrupt" \in orc.cancelled

\* C24: the race is first-completion-wins with the loser cancelled: when answer
\* capture starts, the task that did not complete has been cancelled (the speak
\* task when the interruption came first, the interruption listener when the
\* speech came first), and after an interruption no further unit of the
\* question is handed to speech output.
C24_RaceLoserCancelled ==
    [][ /\ (pc # "listen" /\ pc' = "listen") => LoserCancelled'
        /\ (pc = "listen" /\ pc' = "listen" /\ orc.race = "interrupt_first") =>
               /\ orc'.spoken = orc.spoken
               /\ orc'.tts # "queued" ]_vars

C24_Witness ==
    /\ pc = "listen"
    /\ orc.race = "interrupt_first"
    /\ orc.cancelled = {"speak"}
    /\ orc.spoken = 0
    /\ orc.tts = "idle"

\* C25: every snapshot that a save writes (a turn commit, a phase completion, an
\* auto-save, a pause, a completion or a failure) is the dump of a session whose
\* transcript is made of whole AI/HUMAN pairs: no save, an auto-save during a
\* turn included, writes an AI turn without its HUMAN turn.
C25_SnapshotsWholePairs ==
    [][ hist'.saved # NoSession =>
          LET f == disk'[hist'.saved.session_id] IN
          /\ f.kind = "doc"
          /\ f.doc = model_dump_json(hist'.saved)
          /\ WellPaired(f.doc.transcript) ]_vars

C25_Witness ==
    /\ hist.op = "auto_save"
    /\ hist.saved # NoSession
    /\ pc \in {"race", "listen"}
    /\ Len(disk[hist.saved.session_id].doc.transcript) >= 2

\* C26: an exchange is committed as exactly one AI turn followed by one HUMAN
\* turn with the same timestamp, and the step that appends the pair triggers a
\* save of the session before the next question is generated.
C26_CommitPairThenSave ==
    [][ (/\ HasSession /\ session' # NoSession
         /\ session'.session_id = session.session_id
         /\ session'.transcript # session.transcript) =>
          LET t == session.transcript
              u == session'.transcript
          IN  /\ Len(u) = Len(t) + 2
              /\ SubSeq(u, 1, Len(t)) = t
              /\ u[Len(t) + 1].role = "ai"
              /\ u[Len(t) + 2].role = "human"
              /\ u[Len(t) + 1].ts = u[Len(t) + 2].ts
              /\ hist'.lastSave # "none"
              /\ hist'.lastSave = "ok" => hist'.saved.transcript = u
              /\ pc' \in {"ask", "phase_done"} ]_vars

C26_Witness ==
    /\ pc = "ask"
    /\ orc.committed
    /\ hist.lastSave = "ok"
    /\ Len(session.transcript) >= 4
    /\ hist.saved.transcript = session.transcript
    /\ session.transcript[3].ts # session.transcript[1].ts

\* C27: when the recording is empty or below the size threshold, the answer is
\* the empty string, transcribe_audio is not called for it, and the empty answer
\* is committed as the HUMAN turn of the pair of the question.
C27_ShortRecording ==
    orc.listen = "short" =>
        /\ orc.committed
        /\ orc.answer = EmptyText
        /\ ~orc.stt_called
        /\ LastHuman.role = "human" /\ LastHuman.text = EmptyText
        /\ LastAi.role = "ai" /\ LastAi.text = orc.question

C27_Witness ==
    /\ orc.listen = "short"
    /\ orc.committed
    /\ pc = "phase_done"
    /\ hist.lastSave = "ok"
    /\ disk[session.session_id].doc.transcript[Len(session.transcript)].text = EmptyText

InRun == pc \in {"welcome", "ask", "race", "listen", "phase_done", "closing"}

\* C28: the interview always advances: a run that is under way and that the
\* user does not stop reaches the status COMPLETED, whatever generation
\* failures, listening failures, silences and interruptions occur on the way.
C28_RunCompletes ==
    InRun ~> \/ pc = "finally" /\ orc.exit = "ok" /\ session.state.v = COMPLETED
             \/ orc.exit = "interrupted"

C28_Witness ==
    /\ pc = "finally"
    /\ orc.exit = "ok"
    /\ session.state.v = COMPLETED
    /\ orc.loaded_len > 0
    /\ \E k \in 1..Len(session.transcript) : session.transcript[k].text = Sentinel
    /\ orc.race = "interrupt_first"

IsPrefix(a, b) == Len(a) <= Len(b) /\ SubSeq(b, 1, Len(a)) = a

\* C30: the transcript is append-only: in every step of a run the transcript in
\* memory before the step is a prefix of the one after it; every save of a
\* running session extends the transcript of the file it replaces; a load gives
\* the transcript of the file, turn for turn.
C30_AppendOnly ==
    [][ /\ (HasSession /\ session' # NoSession) =>
              /\ session'.session_id = session.session_id
              /\ IsPrefix(session.transcript, session'.transcript)
        /\ (HasSession /\ orc.own_file /\ hist'.saved # NoSession) =>
              LET id == hist'.saved.session_id IN
              disk[id].kind = "doc" =>
                 IsPrefix(disk[id].doc.transcript, disk'[id].doc.transcript)
        /\ (~HasSession /\ session' # NoSession /\ hist'.lastSave = "none") =>
              LET f == disk[session'.session_id] IN
              /\ f.kind = "doc"
              /\ Len(session'.transcript) = Len(f.doc.transcript)
              /\ \A k \in 1..Len(f.doc.transcript) :
                    DumpQA(session'.transcript[k]) = f.doc.transcript[k] ]_vars

C30_Witness ==
    /\ HasSession
    /\ orc.loaded_len >= 2
    /\ orc.run_commits >= 1
    /\ hist.lastSave = "ok"
    /\ Len(disk[session.session_id].doc.transcript) = orc.loaded_len + 2 * orc.run_commits

NoDuplicate(l) == \A i, j \in 1..Len(l) : i # j => l[i] # l[j]

\* C31: completing a phase is idempotent: no phase name is twice in
\* completed_phases, in memory or in the file of the session, over any sequence
\* of completions, stops and resumes, also when the configured list of phases
\* names a phase more than once.
C31_PhaseOnce ==
    /\ HasSession => NoDuplicate(session.completed_phases)
    /\ \A id \in Ids : disk[id].kind = "doc" => NoDuplicate(disk[id].doc.completed_phases)

C31_Witness ==
    /\ pc = "phases_done"
    /\ runs > 1
    /\ ~NoDuplicate(orc.phases)
    /\ Len(orc.phases) = 3
    /\ Len(session.completed_phases) = 2
    /\ disk[0].doc.completed_phases = session.completed_phases

\* C32: the engine is driven by the worker alone, through the queue: at most
\* one utterance is being synthesized at any time (the one the worker has in
\* hand), the utterances are said in the order in which they were put on the
\* queue, and the complete_event of an utterance is set only once the utterance
\* has finished or failed.
C32_WorkerOwnsEngine ==
    /\ Cardinality(orc.speaking) <= 1
    /\ orc.speaking \subseteq {orc.current}
    /\ \A i, j \in 1..Len(orc.said) : i < j => orc.said[i] < orc.said[j]
    /\ \A u \in orc.complete : orc.outcome[u] # "none" /\ u \notin orc.speaking

C32_Witness ==
    /\ orc.wpos = "speaking"
    /\ orc.said = <<1, 3>>
    /\ orc.complete = {1}
    /\ orc.outcome[1] = "timeout"
    /\ orc.interruption_event

\* C33: last_checkpoint is the time of the most recent write that reached the
\* canonical file: a save whose write or rename fails raises nothing and leaves
\* the canonical files and last_checkpoint as they were before the call.
C33_CheckpointOfLastWrite ==
    [][ (HasSession /\ session' # NoSession /\ hist'.lastSave \in FailFates) =>
          /\ disk' = disk
          /\ session'.last_checkpoint = session.last_checkpoint ]_vars

FirstOk(f, k) == f[k] = "ok" /\ \A j \in 1..(k - 1) : f[j] # "ok"

\* C34: a call under the retry handler is attempted at most 3 times: a call that
\* succeeds on attempt k <= 3 returns after exactly k attempts; a call that fails
\* 3 times raises the error of the third attempt, and the caller then goes on
\* with a canned question or the sentinel answer.
C34_RetryAtMostThree ==
    /\ orc.attempts <= 3
    /\ pc = "returned" => FirstOk(orc.fates, orc.attempts)
    /\ pc = "raised" =>
          /\ orc.attempts = 3
          /\ \A j \in 1..3 : orc.fates[j] # "ok"
          /\ orc.raised = orc.fates[3]
    /\ pc = "retry_done" =>
          IF orc.raised = "none"
          THEN /\ FirstOk(orc.fates, orc.attempts)
               /\ orc.text \in {GeneratedQuestion, TranscribedAnswer}
          ELSE /\ orc.attempts = 3
               /\ orc.text \in fallback_questions("warmup") \cup {Sentinel}
               /\ orc.text = Sentinel <=> orc.caller = "transcribe_audio"

C34_Witness ==
    /\ pc = "retry_done"
    /\ orc.caller = "transcribe_audio"
    /\ orc.fates = [k \in 1..RetryHorizon |->
                      IF k = 3 THEN "TimeoutError" ELSE IF k < 3 THEN "ConnectionError" ELSE "ok"]
    /\ orc.raised = "TimeoutError"
    /\ orc.text = Sentinel

\* C35: a session that reaches COMPLETED, after any number of stops and resumes,
\* holds exactly one question/answer pair per configured question: a phase that
\* was stopped after some of its questions is continued with the remaining
\* ones on resume, not started again from its first question.
C35_ResumeContinuesPhase ==
    (HasSession /\ pc = "finally" /\ orc.exit = "ok" /\ session.state.v = COMPLETED) =>
        Len(session.transcript) = 2 * SumQuestions(Len(interview_phases))

DumpTranscript(tr) == [k \in 1..Len(tr) |-> DumpQA(tr[k])]

\* the file of the session holds its transcript but for at most the last pair,
\* and the whole of it where a question starts
InSync ==
    LET f == disk[session.session_id]
        m == DumpTranscript(session.transcript)
    IN  /\ f.kind = "doc"
        /\ IsPrefix(f.doc.transcript, m)
        /\ Len(m) - Len(f.doc.transcript) <= 2
        /\ pc \in {"ask", "race"} => f.doc.transcript = m

\* C36: bounded loss on a crash: from the first save of a session on, and as
\* long as the saves succeed, the transcript in the file is a prefix of the one
\* in memory and shorter by at most one pair, and equal to it whenever a
\* question starts.
C36_BoundedLoss ==
    [][ (session' # NoSession /\ hist'.lastSave \notin FailFates) =>
          /\ hist'.lastSave = "ok" => InSync'
          /\ (/\ HasSession /\ InSync /\ hist'.lastSave = "none"
              /\ disk'[session.session_id] = disk[session.session_id]) => InSync' ]_vars

C36_Witness ==
    /\ pc = "ask"
    /\ HasSession
    /\ orc.run_commits >= 1
    /\ orc.loaded_len >= 2
    /\ hist.lastSave = "ok"
    /\ InSync
    /\ Len(disk[session.session_id].doc.transcript) >= 4

LiveTasks == {k \in TaskIds : orc.tasks[k] = "scheduled"}

\* C37: at most one auto-save task that has not been cancelled exists at any
\* time, over any sequence of create_session, load_session, mark_completed and
\* mark_failed: a start creates a task only when _save_task is None or done,
\* and after a stop none is left.
C37_OneAutoSaveTask ==
    /\ [](Cardinality(LiveTasks) <= 1)
    /\ [](orc.task = 0 => LiveTasks = {})
    /\ [](orc.last \in {"mark_completed", "mark_failed"} => orc.task = 0)
    /\ [][ orc'.created # orc.created =>
             /\ orc.task = 0 \/ orc.tasks[orc.task] = "done"
             /\ orc'.last \in {"create_session", "load_session"}
             /\ orc'.created = orc.created + 1 ]_vars

C37_Witness ==
    /\ orc.last = "load_session"
    /\ orc.created = 2
    /\ orc.tasks[1] = "cancelling"
    /\ orc.tasks[2] = "scheduled"
    /\ orc.task = 2
    /\ session.state.v = COMPLETED

\* the export file of session id b holds the export of that session
HoldsExportOf(b) ==
    /\ disk[b].kind = "doc"
    /\ exports[output_filename_base(b)] # NoExport
    /\ Tail(exports[output_filename_base(b)]) = disk[b].doc.transcript

\* C38: two sessions with different session ids never write their transcript
\* export to the same file: a run leaves the file that holds the export of
\* another session as it is.
C38_ExportPerSession ==
    [][ \A b \in Ids :
          (HasSession /\ b # session.session_id /\ HoldsExportOf(b)) =>
              exports'[output_filename_base(b)] = exports[output_filename_base(b)] ]_vars

NoRecordingGoingOn == \A c \in RecCallers : orc.rpos[c] = "idle"

\* C39: the recorder holds the microphone for at most one recording at a time
\* and always releases it: a start_recording call made while a recording is
\* active returns empty audio and changes nothing else, and when no call of
\* start_recording is in progress (each has returned, raised or been cancelled)
\* is_recording is False and the input stream is closed.
C39_RecorderReleases ==
    /\ [](NoRecordingGoingOn => (~orc.is_recording /\ orc.stream = "none"))
    /\ [][ \A c \in RecCallers :
             (orc.is_recording /\ orc.rpos[c] = "idle" /\ runs' = runs + 1) =>
                 orc' = [orc EXCEPT !.outcome[c] = "refused"] ]_vars

====
